---- MODULE Spec2Model ----
(***************************************************************************)
(* TodoApp (src/unnamed/part_000, the class starting at line 2134): the    *)
(* task list with its cached counters, the undo/redo history, the          *)
(* statistics (activity window, streak) and the pomodoro focus timer.      *)
(*                                                                         *)
(* Strings are sequences of one-character strings, so that trim() is       *)
(* computed.  A calendar date (Date.toDateString()) is the number of the   *)
(* day; a Date.now() reading is a natural number of milliseconds.          *)
(***************************************************************************)
EXTENDS Integers, Sequences, FiniteSets, TLC

\* ------------------------------------------------------------------ bounds
MaxClock == 1          \* Date.now() readings are 0..MaxClock
MaxTasks == 3          \* addTask is offered while the list is shorter
MaxSnapshots == 4      \* mutations are offered while the history is shorter
MaxDay == 5            \* the calendar runs over the days 0..MaxDay
MaxReloads == 5        \* the page is loaded again while the clock reads less
MaxSessionOps == 2     \* in SpecLedger a mutation is offered while the history is shorter
MaxCompleted == 2      \* completions are offered while tasksCompletedToday is less
MaxSessions == 1       \* in SpecFocus sessions are started and countdowns tick
                       \* while fewer sessions have been counted and have ended
MaxPomodoros == 4      \* the same in SpecBreaks
MaxTimers == 2         \* a session is started while fewer countdowns are armed
MaxTicks == 900        \* a countdown ticks while it has taken fewer ticks
MaxFocusDay == 1       \* in SpecFocus the calendar runs over the days 0..MaxFocusDay
MaxLocationOps == 2    \* in SpecLocations tasks are added and edited while the history is shorter
MaxStartups == 2       \* in SpecStartup the page is loaded again while the clock reads less
MaxStartTicks == 3     \* in SpecStart a countdown ticks while it has taken fewer ticks
MaxToggleOps == 6      \* in SpecToggleAll the list is changed while the history is shorter
MaxToggleDay == 1      \* in SpecToggleAll the calendar runs over the days 0..MaxToggleDay
MaxActivityOps == 3    \* in SpecActivity a task is added or toggled while the history is shorter
MaxActivitySessions == 1  \* in SpecActivity a session starts while fewer minutes of focus are recorded
MaxActivityDay == 1    \* in SpecActivity the calendar runs over the days 0..MaxActivityDay
MaxActivityReloads == 1   \* in SpecActivity the page is loaded again while the clock reads less
MaxQuotaOps == 4       \* in SpecQuota the list is changed while the history is shorter
MaxObjects == 5        \* in SpecAlias an operation is offered while fewer task objects are allocated
MaxLiveObjects == 2    \* in SpecAlias a task is added while the list is shorter
MaxAliasOps == 3       \* in SpecAlias an operation is offered while the history is shorter

\* ------------------------------------------------------- program constants
maxHistorySize == 50   \* constructor: this.maxHistorySize = 50
daysToShow == 84       \* initContributionData: const daysToShow = 84

VARIABLES
    tasks,             \* this.tasks: sequence of task records, newest first
    _activeCount,      \* this._activeCount
    _completedCount,   \* this._completedCount
    history,           \* this.history: sequence of snapshots of this.tasks
    historyIndex,      \* this.historyIndex
    recentLocations,   \* this.recentLocations
    stats,             \* this.stats
    storage,           \* localStorage: the items 'tasks', 'recentLocations', 'stats'
    toast,             \* the message of the last showToast call ("" before any)
    today,             \* the calendar day new Date() reads
    now,               \* the last Date.now() reading
    focusModeActive,   \* this.focusModeActive
    timerInterval,     \* this.timerInterval: a timer handle, 0 for null
    timerDuration,     \* this.timerDuration, a JavaScript number
    timeRemaining,     \* this.timeRemaining, a JavaScript number
    timerPaused,       \* this.timerPaused
    currentTask,       \* this.currentTask: Item(task), Absent for null
    isBreakTime,       \* this.isBreakTime
    pomodoroCount,     \* this.pomodoroCount
    pomodorosToday,    \* this.pomodorosToday
    armed,             \* the handles of the setInterval countdowns not cleared
    permission,        \* Notification.permission
    breakOffered,      \* the minutes the last timerComplete offered in its
                       \* confirm dialog, 0 when it showed none
    entered,           \* the text the last accepted prompt returned
    ticks,             \* the ticks the countdown has taken, unpaused, since
                       \* the last start of a session or a break
    sessions,          \* the sessions with a task that ran to their end
                       \* since the app started
    refused,           \* the last startFocusMode returned without starting
    isNull,            \* the fields of this, among recentLocations and
                       \* stats, that hold null
    constructed,       \* the constructor has run to its end
    heap,              \* the task objects allocated so far; a reference is a
                       \* position in this sequence
    liveRefs,          \* this.tasks as the references of its elements
    historyRefs,       \* this.history as the references of the elements of
                       \* its snapshots
    refCursor          \* this.historyIndex where the references are followed

taskVars == <<tasks, _activeCount, _completedCount, history, historyIndex,
              recentLocations, toast, now>>

focusVars == <<focusModeActive, timerInterval, timerDuration, timeRemaining,
               timerPaused, currentTask, isBreakTime, pomodoroCount,
               pomodorosToday, armed, permission, breakOffered, entered, ticks,
               sessions, refused>>

\* the references are followed in SpecAlias only: the other specifications
\* hold task records by value, which is what the deep copies of saveState,
\* undo and redo amount to
refVars == <<heap, liveRefs, historyRefs, refCursor>>

startVars == <<isNull, constructed, refVars>>

vars == <<taskVars, stats, storage, today, focusVars, startVars>>

\* ----------------------------------------------------------------- strings
RECURSIVE TrimLeft(_)
TrimLeft(s) == IF s # <<>> /\ Head(s) = " " THEN TrimLeft(Tail(s)) ELSE s

RECURSIVE TrimRight(_)
TrimRight(s) ==
    IF s # <<>> /\ s[Len(s)] = " " THEN TrimRight(SubSeq(s, 1, Len(s) - 1)) ELSE s

\* the text as typed, where the code trims it
TrimNothing(s) == s

\* String.prototype.trim
Trim(s) == TrimRight(TrimLeft(s))

\* ------------------------------------------------------------ array helpers
\* Array.prototype.findIndex by id, 1-based; 0 when no task has the id
RECURSIVE FindIndexFrom(_, _, _)
FindIndexFrom(ts, id, i) ==
    IF i > Len(ts) THEN 0
    ELSE IF ts[i].id = id THEN i
    ELSE FindIndexFrom(ts, id, i + 1)

FindIndex(ts, id) == FindIndexFrom(ts, id, 1)

\* this.tasks.filter(task => task.id !== id)
FilterOutId(ts, id) == SelectSeq(ts, LAMBDA t : t.id # id)

\* this.tasks.filter(task => !task.completed)
FilterActive(ts) == SelectSeq(ts, LAMBDA t : ~t.completed)

\* number of tasks whose completed flag is set (a full scan)
RECURSIVE CountCompleted(_)
CountCompleted(ts) ==
    IF ts = <<>> THEN 0
    ELSE (IF Head(ts).completed THEN 1 ELSE 0) + CountCompleted(Tail(ts))

\* recalculateCounters: both counters from a scan of the list
RecalculateCounters(ts) ==
    [active |-> Len(ts) - CountCompleted(ts), completed |-> CountCompleted(ts)]

\* --------------------------------------------------------------- undo/redo
\* saveState without the history.shift() that limits the history size
SaveStateNoEviction(h, idx, ts) ==
    LET cut == IF idx < Len(h) - 1 THEN SubSeq(h, 1, idx + 1) ELSE h
    IN  [history |-> Append(cut, ts), historyIndex |-> idx + 1]

\* saveState without the history.slice() that drops the entries after the cursor
SaveStateNoTruncate(h, idx, ts) ==
    LET pushed == Append(h, ts)
    IN  IF Len(pushed) > maxHistorySize
        THEN [history |-> Tail(pushed), historyIndex |-> idx]
        ELSE [history |-> pushed, historyIndex |-> idx + 1]

\* saveState: the history and the cursor after recording a snapshot of ts
SaveState(h, idx, ts) ==
    LET cut == IF idx < Len(h) - 1 THEN SubSeq(h, 1, idx + 1) ELSE h
        pushed == Append(cut, ts)
    IN  IF Len(pushed) > maxHistorySize
        THEN [history |-> Tail(pushed), historyIndex |-> idx]
        ELSE [history |-> pushed, historyIndex |-> idx + 1]

\* -------------------------------------------------------------- statistics
\* one day of the activity window
DayEntry(d) == [date |-> d, tasks |-> 0, pomodoros |-> 0, totalActivity |-> 0]

\* initContributionData: daysToShow zero entries, the last one dated day
InitContributionData(day) ==
    [i \in 1..daysToShow |-> DayEntry(day - (daysToShow - i))]

\* contributionData.find(d => d.date === today): the position of the first
\* entry dated day, 1-based; 0 when there is none
FindDay(cd, day) ==
    IF \E i \in 1..Len(cd) : cd[i].date = day
    THEN CHOOSE i \in 1..Len(cd) :
            /\ cd[i].date = day
            /\ \A j \in 1..(i - 1) : cd[j].date # day
    ELSE 0

\* updateStreak without its break: every entry with activity is counted
StreakWithoutBreak(cd) ==
    Cardinality({i \in 1..Len(cd) : cd[i].totalActivity > 0})

\* updateStreak: the loop runs from the newest entry backward, counts the
\* entries with totalActivity > 0 and stops at the first one without: the
\* result is the n for which the n newest entries are active and the one
\* before them, if any, is not
UpdateStreak(cd) ==
    CHOOSE n \in 0..Len(cd) :
        /\ \A i \in (Len(cd) - n + 1)..Len(cd) : cd[i].totalActivity > 0
        /\ n = Len(cd) \/ ~(cd[Len(cd) - n].totalActivity > 0)

\* updateContributionData: drop the oldest day and append today, once
UpdateContributionData(cd, day) ==
    IF cd[Len(cd)].date # day THEN Append(Tail(cd), DayEntry(day)) ELSE cd

\* The statistics functions below end with saveStats, so they take and return
\* the pair m = [stats, storage] of this.stats and localStorage.

\* saveStats: localStorage.setItem('stats', JSON.stringify(this.stats))
SaveStats(m) == [m EXCEPT !.storage.stats = <<m.stats>>]

\* checkDailyReset
CheckDailyReset(m, day) ==
    IF m.stats.lastStatsDate # day
    THEN SaveStats([m EXCEPT
                      !.stats.tasksCompletedToday = 0,
                      !.stats.lastStatsDate = day,
                      !.stats.contributionData = UpdateContributionData(@, day)])
    ELSE m

\* incrementTasksCompleted
IncrementTasksCompleted(m, day) ==
    LET old == m.stats.contributionData
        i == FindDay(old, day)
        cd == IF i = 0 THEN old
              ELSE [old EXCEPT
                      ![i].tasks = @ + 1,
                      ![i].totalActivity = old[i].tasks + 1 + old[i].pomodoros]
    IN  SaveStats([m EXCEPT !.stats.tasksCompletedToday = @ + 1,
                            !.stats.contributionData = cd,
                            !.stats.streak = UpdateStreak(cd)])

\* decrementTasksCompleted without its two tests for a positive counter
DecrementUnclamped(m, day) ==
    LET old == m.stats.contributionData
        i == FindDay(old, day)
        cd == IF i # 0
              THEN [old EXCEPT
                      ![i].tasks = @ - 1,
                      ![i].totalActivity = old[i].tasks - 1 + old[i].pomodoros]
              ELSE old
    IN  SaveStats([m EXCEPT !.stats.tasksCompletedToday = @ - 1,
                            !.stats.contributionData = cd])

\* decrementTasksCompleted
DecrementTasksCompleted(m, day) ==
    IF m.stats.tasksCompletedToday > 0
    THEN LET old == m.stats.contributionData
             i == FindDay(old, day)
             cd == IF i # 0 /\ old[i].tasks > 0
                   THEN [old EXCEPT
                           ![i].tasks = @ - 1,
                           ![i].totalActivity = old[i].tasks - 1 + old[i].pomodoros]
                   ELSE old
         IN  SaveStats([m EXCEPT !.stats.tasksCompletedToday = @ - 1,
                                 !.stats.contributionData = cd])
    ELSE m

\* incrementPomodoros
IncrementPomodoros(m, day) ==
    LET old == m.stats.contributionData
        i == FindDay(old, day)
        cd == IF i = 0 THEN old
              ELSE [old EXCEPT
                      ![i].pomodoros = @ + 1,
                      ![i].totalActivity = old[i].tasks + old[i].pomodoros + 1]
    IN  SaveStats([m EXCEPT !.stats.contributionData = cd])

\* addFocusTime
AddFocusTime(m, minutes) ==
    SaveStats([m EXCEPT !.stats.totalFocusTime = @ + minutes])

\* the stats object the constructor builds
DefaultStats(day) ==
    [tasksCompletedToday |-> 0, totalFocusTime |-> 0, streak |-> 0,
     lastStatsDate |-> day, contributionData |-> InitContributionData(day)]

\* ----------------------------------------------------------------- numbers
\* a JavaScript number held by the timer: an integer or NaN
Num(v) == [nan |-> FALSE, v |-> v]
NaN == [nan |-> TRUE, v |-> 0]

IsDigit(c) == c \in {"0", "1", "2", "3", "4", "5", "6", "7", "8", "9"}

DigitValue(c) ==
    CHOOSE d \in 0..9 :
        <<"0", "1", "2", "3", "4", "5", "6", "7", "8", "9">>[d + 1] = c

\* the position after the run of digits that starts at position i of s
DigitsEnd(s, i) ==
    CHOOSE j \in i..(Len(s) + 1) :
        /\ \A k \in i..(j - 1) : IsDigit(s[k])
        /\ j = Len(s) + 1 \/ ~IsDigit(s[j])

\* the natural number a sequence of digits writes
RECURSIVE ToNat(_)
ToNat(ds) ==
    IF ds = <<>> THEN 0
    ELSE 10 * ToNat(SubSeq(ds, 1, Len(ds) - 1)) + DigitValue(ds[Len(ds)])

RECURSIVE Pow10(_)
Pow10(e) == IF e = 0 THEN 1 ELSE 10 * Pow10(e - 1)

\* the number the text s converts to where startFocusMode compares it
\* (isNaN(minutes), minutes <= 0): white space is trimmed, the empty text is
\* 0, a signed decimal literal with an optional fraction and exponent is its
\* value, written here by its digits, and every other text is NaN.  Texts
\* with a radix prefix are not among the answers.
ToNumber(s) ==
    LET t == Trim(s)
        signed == t # <<>> /\ t[1] \in {"+", "-"}
        i1 == IF signed THEN 2 ELSE 1
        i2 == DigitsEnd(t, i1)
        dot == i2 <= Len(t) /\ t[i2] = "."
        i3 == IF dot THEN DigitsEnd(t, i2 + 1) ELSE i2
        hasExp == i3 <= Len(t) /\ t[i3] \in {"e", "E"}
        expSigned == hasExp /\ i3 + 1 <= Len(t) /\ t[i3 + 1] \in {"+", "-"}
        i4 == IF ~hasExp THEN i3 ELSE IF expSigned THEN i3 + 2 ELSE i3 + 1
        i5 == IF hasExp THEN DigitsEnd(t, i4) ELSE i3
        int == SubSeq(t, i1, i2 - 1)
        frac == IF dot THEN SubSeq(t, i2 + 1, i3 - 1) ELSE <<>>
        expDigits == SubSeq(t, i4, i5 - 1)
        neg == signed /\ t[1] = "-"
        number == [nan |-> FALSE, inf |-> FALSE, neg |-> neg, int |-> int,
                   frac |-> frac, exp |-> 0]
    IN  IF t = <<>> THEN [number EXCEPT !.int = <<"0">>]
        ELSE IF SubSeq(t, i1, Len(t)) =
                   <<"I", "n", "f", "i", "n", "i", "t", "y">>
        THEN [number EXCEPT !.inf = TRUE, !.int = <<>>]
        ELSE IF /\ int # <<>> \/ frac # <<>>
                /\ hasExp => expDigits # <<>>
                /\ i5 = Len(t) + 1
        THEN [number EXCEPT
                !.exp = IF expSigned /\ t[i3 + 1] = "-"
                        THEN 0 - ToNat(expDigits) ELSE ToNat(expDigits)]
        ELSE [number EXCEPT !.nan = TRUE, !.neg = FALSE, !.int = <<>>,
                            !.frac = <<>>]

\* a validation that lets every number through
AnyNumberPositive(n) == ~n.nan

\* minutes <= 0 is false: the number is positive
IsPositive(n) ==
    /\ ~n.nan
    /\ ~n.neg
    /\ n.inf \/ \E k \in 1..Len(n.int \o n.frac) : (n.int \o n.frac)[k] # "0"

\* parseInt(s): leading white space and a sign are skipped and the run of
\* digits that follows is read; NaN when there is none
ParseInt(s) ==
    LET t == TrimLeft(s)
        signed == t # <<>> /\ t[1] \in {"+", "-"}
        i1 == IF signed THEN 2 ELSE 1
        j == DigitsEnd(t, i1)
        n == ToNat(SubSeq(t, i1, j - 1))
    IN  IF j = i1 THEN NaN
        ELSE Num(IF signed /\ t[1] = "-" THEN 0 - n ELSE n)

\* Math.round(d / 60)
RoundMinutes(d) == (2 * d + 60) \div 120

\* ---------------------------------------------------------------- locations
\* addRecentLocation without its slice(0, 10)
AddRecentLocationUncapped(locs, loc) ==
    LET trimmed == Trim(loc)
    IN  IF trimmed = <<>> THEN locs
        ELSE <<trimmed>> \o SelectSeq(locs, LAMBDA l : l # trimmed)

\* addRecentLocation: the list after using location loc
AddRecentLocation(locs, loc) ==
    LET trimmed == Trim(loc)
    IN  IF trimmed = <<>> THEN locs
        ELSE LET added == <<trimmed>> \o SelectSeq(locs, LAMBDA l : l # trimmed)
             IN  SubSeq(added, 1, IF Len(added) < 10 THEN Len(added) ELSE 10)

\* ------------------------------------------------------------ localStorage
\* an item of localStorage: <<>> when the key is absent and <<v>> when it
\* holds the JSON text of v, which is what the program writes
Absent == <<>>
Item(v) == <<v>>

\* two texts the program does not write: the JSON text null, and a text
\* that JSON.parse rejects
JsonNull == <<"n", "u", "l", "l">>
Unparsable == <<"{", "{">>

\* saveToStorage: localStorage.setItem('tasks', JSON.stringify(this.tasks))
SaveToStorage(sto, ts) == [sto EXCEPT !.tasks = Item(ts)]

\* localStorage.setItem('recentLocations', ...) at the end of addRecentLocation,
\* which returns before it when the trimmed location is empty
SaveLocations(sto, locs, loc) ==
    IF Trim(loc) = <<>> THEN sto ELSE [sto EXCEPT !.recentLocations = Item(locs)]

\* loadFromStorage, run by the constructor on day over the storage sto: the
\* task list, the counters, the locations, the statistics and the storage it
\* leaves, the fields it leaves null and whether it returns.  A text that
\* does not parse leaves the values of the constructor.  The text null
\* parses: recalculateCounters then throws inside the try block of the tasks,
\* which falls back to the empty list; this.recentLocations stays null;
\* this.stats stays null, the TypeError of this.stats.contributionData being
\* caught, and checkDailyReset, which reads this.stats.lastStatsDate outside
\* any try block, throws.
LoadFromStorage(sto, day) ==
    LET parsedTasks == Len(sto.tasks) = 1
        ts == IF parsedTasks THEN sto.tasks[1] ELSE <<>>
        locs == IF Len(sto.recentLocations) = 1 THEN sto.recentLocations[1]
                ELSE <<>>
        st == IF Len(sto.stats) = 1 THEN sto.stats[1] ELSE DefaultStats(day)
        nullStats == sto.stats = JsonNull
        m == IF nullStats THEN [stats |-> st, storage |-> sto]
             ELSE CheckDailyReset([stats |-> st, storage |-> sto], day)
    IN  [tasks |-> ts,
         counters |-> IF parsedTasks THEN RecalculateCounters(ts)
                      ELSE [active |-> 0, completed |-> 0],
         recentLocations |-> locs,
         stats |-> m.stats,
         storage |-> m.storage,
         isNull |-> (IF sto.recentLocations = JsonNull
                     THEN {"recentLocations"} ELSE {})
                    \cup (IF nullStats THEN {"stats"} ELSE {}),
         returns |-> ~nullStats]

\* ------------------------------------------------------------------- start
EmptyStorage == [tasks |-> Absent, recentLocations |-> Absent, stats |-> Absent]

\* constructor: the fields of a new TodoApp over the storage sto on day;
\* loadFromStorage is called after the fields have their first values and the
\* event listeners are attached
NewApp(sto, day) ==
    LET l == LoadFromStorage(sto, day)
    IN  [tasks |-> l.tasks,
         activeCount |-> l.counters.active,
         completedCount |-> l.counters.completed,
         history |-> <<>>,
         historyIndex |-> -1,
         recentLocations |-> l.recentLocations,
         stats |-> l.stats,
         storage |-> l.storage,
         isNull |-> l.isNull,
         constructed |-> l.returns]

\* constructor: the timer fields of a new TodoApp; no countdown is armed in a
\* page that has just been loaded
FocusReset ==
    /\ focusModeActive' = FALSE
    /\ timerInterval' = 0
    /\ timerDuration' = Num(0)
    /\ timeRemaining' = Num(0)
    /\ timerPaused' = FALSE
    /\ currentTask' = Absent
    /\ isBreakTime' = FALSE
    /\ pomodoroCount' = 0
    /\ pomodorosToday' = 0
    /\ armed' = {}
    /\ breakOffered' = 0
    /\ entered' = <<>>
    /\ ticks' = 0
    /\ sessions' = 0
    /\ refused' = FALSE

\* the first start of the app, on day 0, in a browser whose localStorage is sto
Started(sto) ==
    LET app == NewApp(sto, 0)
    IN  /\ tasks = app.tasks
        /\ _activeCount = app.activeCount
        /\ _completedCount = app.completedCount
        /\ history = app.history
        /\ historyIndex = app.historyIndex
        /\ recentLocations = app.recentLocations
        /\ stats = app.stats
        /\ storage = app.storage
        /\ isNull = app.isNull
        /\ constructed = app.constructed
        /\ toast = ""
        /\ today = 0
        /\ now = 0
        /\ focusModeActive = FALSE
        /\ timerInterval = 0
        /\ timerDuration = Num(0)
        /\ timeRemaining = Num(0)
        /\ timerPaused = FALSE
        /\ currentTask = Absent
        /\ isBreakTime = FALSE
        /\ pomodoroCount = 0
        /\ pomodorosToday = 0
        /\ armed = {}
        /\ permission = "default"
        /\ breakOffered = 0
        /\ entered = <<>>
        /\ ticks = 0
        /\ sessions = 0
        /\ refused = FALSE
        /\ heap = <<>>
        /\ liveRefs = <<>>
        /\ historyRefs = <<>>
        /\ refCursor = -1

\* the first start of the app: nothing is stored yet
Init == Started(EmptyStorage)

\* the page is loaded again, which takes time: a new TodoApp is constructed
\* over the storage, and the clock reads t from then on
Reload(t) ==
    LET app == NewApp(storage, today)
    IN  /\ t > now
        /\ now' = t
        /\ tasks' = app.tasks
        /\ _activeCount' = app.activeCount
        /\ _completedCount' = app.completedCount
        /\ history' = app.history
        /\ historyIndex' = app.historyIndex
        /\ recentLocations' = app.recentLocations
        /\ stats' = app.stats
        /\ storage' = app.storage
        /\ isNull' = app.isNull
        /\ constructed' = app.constructed
        /\ toast' = ""
        /\ FocusReset
        /\ UNCHANGED <<today, permission, refVars>>

\* midnight passes: new Date() reads the next day from now on
DayPasses ==
    /\ today' = today + 1
    /\ UNCHANGED <<tasks, _activeCount, _completedCount, history, historyIndex,
                   recentLocations, stats, storage, toast, now,
                   focusVars, startVars>>

\* the text stored under key is replaced from outside the program
StorageCorrupted(key, text) ==
    /\ storage' = [storage EXCEPT ![key] = text]
    /\ UNCHANGED <<taskVars, stats, today, focusVars, startVars>>

\* addTask with push in place of unshift: the new task goes to the end
AddTaskAtEnd(rawText, rawLocation, t) ==
    LET text == Trim(rawText)
        task == [id |-> t, text |-> text, completed |-> FALSE,
                 location |-> Trim(rawLocation)]
        saved == SaveState(history, historyIndex, tasks)
        locs == AddRecentLocation(recentLocations, task.location)
    IN  /\ t >= now
        /\ now' = t
        /\ IF text = <<>>
           THEN UNCHANGED <<tasks, _activeCount, _completedCount, history,
                            historyIndex, recentLocations, stats, storage, toast,
                            today,
                            focusVars, startVars>>
           ELSE /\ history' = saved.history
                /\ historyIndex' = saved.historyIndex
                /\ tasks' = tasks \o <<task>>
                /\ _activeCount' = _activeCount + 1
                /\ recentLocations' = locs
                /\ storage' = SaveToStorage(
                                  SaveLocations(storage, locs, task.location),
                                  tasks')
                /\ UNCHANGED <<_completedCount, stats, toast, today,
                               focusVars, startVars>>

\* ------------------------------------------------------------- task actions
\* addTask, with the text and location typed into the form, at clock reading t
AddTask(rawText, rawLocation, t) ==
    LET text == Trim(rawText)
        task == [id |-> t, text |-> text, completed |-> FALSE,
                 location |-> Trim(rawLocation)]
        saved == SaveState(history, historyIndex, tasks)
        locs == AddRecentLocation(recentLocations, task.location)
    IN  /\ t >= now
        /\ now' = t
        /\ IF text = <<>>
           THEN UNCHANGED <<tasks, _activeCount, _completedCount, history,
                            historyIndex, recentLocations, stats, storage, toast,
                            today,
                            focusVars, startVars>>
           ELSE /\ history' = saved.history
                /\ historyIndex' = saved.historyIndex
                /\ tasks' = <<task>> \o tasks
                /\ _activeCount' = _activeCount + 1
                /\ recentLocations' = locs
                /\ storage' = SaveToStorage(
                                  SaveLocations(storage, locs, task.location),
                                  tasks')
                /\ UNCHANGED <<_completedCount, stats, toast, today,
                               focusVars, startVars>>

\* deleteTask(id)
DeleteTask(id) ==
    LET saved == SaveState(history, historyIndex, tasks)
        i == FindIndex(tasks, id)
    IN  /\ history' = saved.history
        /\ historyIndex' = saved.historyIndex
        /\ _completedCount' =
              IF i # 0 /\ tasks[i].completed THEN _completedCount - 1
              ELSE _completedCount
        /\ _activeCount' =
              IF i # 0 /\ ~tasks[i].completed THEN _activeCount - 1
              ELSE _activeCount
        /\ tasks' = FilterOutId(tasks, id)
        /\ storage' = SaveToStorage(storage, tasks')
        /\ toast' = IF i # 0 THEN "Deleted" ELSE toast
        /\ UNCHANGED <<recentLocations, stats, today, now,
                       focusVars, startVars>>

\* toggleTask(id) after its saveState: the list, the counters and the pair
\* m = [stats, storage] it leaves when run on day
ToggleResult(ts, active, completed, m, id, day) ==
    LET i == FindIndex(ts, id)
    IN  IF i = 0
        THEN [tasks |-> ts, active |-> active, completed |-> completed, m |-> m]
        ELSE LET wasCompleted == ts[i].completed
                 toggled == [ts EXCEPT ![i].completed = ~wasCompleted]
                 counted == IF wasCompleted
                            THEN DecrementTasksCompleted(m, day)
                            ELSE IncrementTasksCompleted(m, day)
             IN  [tasks |-> toggled,
                  active |-> IF wasCompleted THEN active + 1 ELSE active - 1,
                  completed |-> IF wasCompleted THEN completed - 1
                                ELSE completed + 1,
                  m |-> [counted EXCEPT
                           !.storage = SaveToStorage(counted.storage, toggled)]]

\* toggleTask(id)
ToggleTask(id) ==
    LET saved == SaveState(history, historyIndex, tasks)
        r == ToggleResult(tasks, _activeCount, _completedCount,
                          [stats |-> stats, storage |-> storage], id, today)
    IN  /\ history' = saved.history
        /\ historyIndex' = saved.historyIndex
        /\ tasks' = r.tasks
        /\ _activeCount' = r.active
        /\ _completedCount' = r.completed
        /\ stats' = r.m.stats
        /\ storage' = r.m.storage
        /\ UNCHANGED <<recentLocations, toast, today, now,
                       focusVars, startVars>>

\* the forEach of toggleAllTasks over the tasks from position i on: the
\* statistics after each task whose flag differs from target has been counted
RECURSIVE CountToggled(_, _, _, _, _)
CountToggled(ts, i, target, m, day) ==
    IF i > Len(ts) THEN m
    ELSE CountToggled(ts, i + 1, target,
                      IF ts[i].completed = target THEN m
                      ELSE IF target THEN IncrementTasksCompleted(m, day)
                      ELSE DecrementTasksCompleted(m, day),
                      day)

\* toggleAllTasks
ToggleAllTasks ==
    LET saved == SaveState(history, historyIndex, tasks)
        allCompleted == _completedCount = Len(tasks)
        m == CountToggled(tasks, 1, ~allCompleted,
                          [stats |-> stats, storage |-> storage], today)
    IN  /\ history' = saved.history
        /\ historyIndex' = saved.historyIndex
        /\ tasks' = [i \in 1..Len(tasks) |->
                        [tasks[i] EXCEPT !.completed = ~allCompleted]]
        /\ _activeCount' = IF allCompleted THEN Len(tasks) ELSE 0
        /\ _completedCount' = IF allCompleted THEN 0 ELSE Len(tasks)
        /\ stats' = m.stats
        /\ storage' = SaveToStorage(m.storage, tasks')
        /\ UNCHANGED <<recentLocations, toast, today, now,
                       focusVars, startVars>>

\* clearCompletedTasks
ClearCompletedTasks ==
    LET saved == SaveState(history, historyIndex, tasks)
        count == _completedCount
    IN  /\ history' = saved.history
        /\ historyIndex' = saved.historyIndex
        /\ tasks' = FilterActive(tasks)
        /\ _completedCount' = 0
        /\ storage' = SaveToStorage(storage, tasks')
        /\ toast' = IF count > 0 THEN "Cleared" ELSE toast
        /\ UNCHANGED <<_activeCount, recentLocations, stats, today, now,
                       focusVars, startVars>>

\* saveEdit(id, newText, newDueDate, newDueTime, newLocation)
SaveEdit(id, newText, newLocation) ==
    LET trimmedText == Trim(newText)
        saved == SaveState(history, historyIndex, tasks)
        i == FindIndex(tasks, id)
        location == Trim(newLocation)
        locs == AddRecentLocation(recentLocations, location)
    IN  IF trimmedText = <<>>
        THEN DeleteTask(id)
        ELSE /\ history' = saved.history
             /\ historyIndex' = saved.historyIndex
             /\ tasks' = IF i = 0 THEN tasks
                         ELSE [tasks EXCEPT ![i].text = trimmedText,
                                            ![i].location = location]
             /\ recentLocations' = IF i = 0 THEN recentLocations ELSE locs
             /\ storage' = SaveToStorage(
                              IF i = 0 THEN storage
                              ELSE SaveLocations(storage, locs, location),
                              tasks')
             /\ UNCHANGED <<_activeCount, _completedCount, stats, toast, today,
                            now,
                            focusVars, startVars>>

\* the two splice calls of handleDrop: the task at position d is taken out and
\* put back at position t of the list
Splice(ts, d, t) ==
    LET removed == ts[d]
        rest == SubSeq(ts, 1, d - 1) \o SubSeq(ts, d + 1, Len(ts))
    IN  SubSeq(rest, 1, t - 1) \o <<removed>> \o SubSeq(rest, t, Len(rest))

\* handleDrop: the task item at position dragged of the rendered list is
\* dropped on the task item at position target
HandleDrop(dragged, target) ==
    LET saved == SaveState(history, historyIndex, tasks)
        draggedIndex == FindIndex(tasks, tasks[dragged].id)
        targetIndex == FindIndex(tasks, tasks[target].id)
    IN  /\ dragged \in 1..Len(tasks)
        /\ target \in 1..Len(tasks)
        /\ dragged # target
        /\ history' = saved.history
        /\ historyIndex' = saved.historyIndex
        /\ tasks' = Splice(tasks, draggedIndex, targetIndex)
        /\ storage' = SaveToStorage(storage, tasks')
        /\ UNCHANGED <<_activeCount, _completedCount, recentLocations, stats,
                       toast, today, now,
                       focusVars, startVars>>

\* the list undo() leaves: the snapshot before the cursor, or the list as it
\* is when there is nothing to undo
UndoTasks(h, idx, ts) == IF idx <= 0 THEN ts ELSE h[idx]

\* the list redo() leaves: the snapshot after the cursor, or the list as it is
\* when there is nothing to redo
RedoTasks(h, idx, ts) == IF idx >= Len(h) - 1 THEN ts ELSE h[idx + 2]

\* undo without its first test: the cursor moves back whatever its position
UndoUnguarded ==
    LET restored == UndoTasks(history, historyIndex, tasks)
        counters == RecalculateCounters(restored)
    IN  /\ historyIndex' = historyIndex - 1
        /\ tasks' = restored
        /\ _activeCount' = counters.active
        /\ _completedCount' = counters.completed
        /\ storage' = SaveToStorage(storage, tasks')
        /\ toast' = "Undone"
        /\ UNCHANGED <<history, recentLocations, stats, today, now,
                       focusVars, startVars>>

\* undo
Undo ==
    IF historyIndex <= 0
    THEN /\ toast' = "Nothing to undo"
         /\ UNCHANGED <<tasks, _activeCount, _completedCount, history,
                        historyIndex, recentLocations, stats, storage, today, now,
                        focusVars, startVars>>
    ELSE LET restored == UndoTasks(history, historyIndex, tasks)
             counters == RecalculateCounters(restored)
         IN  /\ historyIndex' = historyIndex - 1
             /\ tasks' = restored
             /\ _activeCount' = counters.active
             /\ _completedCount' = counters.completed
             /\ storage' = SaveToStorage(storage, tasks')
             /\ toast' = "Undone"
             /\ UNCHANGED <<history, recentLocations, stats, today, now,
                            focusVars, startVars>>

\* redo
Redo ==
    IF historyIndex >= Len(history) - 1
    THEN /\ toast' = "Nothing to redo"
         /\ UNCHANGED <<tasks, _activeCount, _completedCount, history,
                        historyIndex, recentLocations, stats, storage, today, now,
                        focusVars, startVars>>
    ELSE LET restored == RedoTasks(history, historyIndex, tasks)
             counters == RecalculateCounters(restored)
         IN  /\ historyIndex' = historyIndex + 1
             /\ tasks' = restored
             /\ _activeCount' = counters.active
             /\ _completedCount' = counters.completed
             /\ storage' = SaveToStorage(storage, tasks')
             /\ toast' = "Redone"
             /\ UNCHANGED <<history, recentLocations, stats, today, now,
                            focusVars, startVars>>

\* ------------------------------------------------------------ focus timer
\* initNotifications: the permission request of the constructor is answered
RequestPermission(answer) ==
    /\ constructed
    /\ permission = "default"
    /\ permission' = answer
    /\ UNCHANGED <<taskVars, startVars, stats, storage, today, focusModeActive,
                   timerInterval, timerDuration, timeRemaining, timerPaused,
                   currentTask, isBreakTime, pomodoroCount, pomodorosToday,
                   armed, breakOffered, entered, ticks, sessions, refused>>

\* setInterval: the handle of the new timer, a positive number that names no
\* armed timer.  The handle of a cleared timer is not held anywhere, so that
\* giving it out again cannot be observed.
NewHandle == CHOOSE h \in 1..(Cardinality(armed) + 1) : h \notin armed

\* startFocusMode(taskId), the prompt answered by answer: Absent when it is
\* cancelled, Item(text) when text is entered
StartFocusMode(taskId, answer) ==
    LET i == FindIndex(tasks, taskId)
        text == answer[1]
        seconds == IF ParseInt(text).nan THEN NaN
                   ELSE Num(ParseInt(text).v * 60)
    IN  IF \/ i = 0
           \/ answer = Absent
           \/ text = <<>>
           \/ ToNumber(text).nan
           \/ ~IsPositive(ToNumber(text))
        THEN /\ refused' = TRUE
             /\ UNCHANGED <<taskVars, startVars, stats, storage, today, focusModeActive,
                            timerInterval, timerDuration, timeRemaining,
                            timerPaused, currentTask, isBreakTime,
                            pomodoroCount, pomodorosToday, armed, permission,
                            breakOffered, entered, ticks, sessions>>
        ELSE /\ refused' = FALSE
             /\ currentTask' = Item(tasks[i])
             /\ timerDuration' = seconds
             /\ timeRemaining' = seconds
             /\ timerPaused' = FALSE
             /\ focusModeActive' = TRUE
             /\ timerInterval' = NewHandle
             /\ armed' = armed \cup {NewHandle}
             /\ entered' = text
             /\ ticks' = 0
             /\ UNCHANGED <<taskVars, startVars, stats, storage, today, isBreakTime,
                            pomodoroCount, pomodorosToday, permission,
                            breakOffered, sessions>>

\* pauseFocusTimer
PauseFocusTimer ==
    /\ timerPaused' = TRUE
    /\ UNCHANGED <<taskVars, startVars, stats, storage, today, focusModeActive,
                   timerInterval, timerDuration, timeRemaining, currentTask,
                   isBreakTime, pomodoroCount, pomodorosToday, armed,
                   permission, breakOffered, entered, ticks, sessions, refused>>

\* resumeFocusTimer
ResumeFocusTimer ==
    /\ timerPaused' = FALSE
    /\ UNCHANGED <<taskVars, startVars, stats, storage, today, focusModeActive,
                   timerInterval, timerDuration, timeRemaining, currentTask,
                   isBreakTime, pomodoroCount, pomodorosToday, armed,
                   permission, breakOffered, entered, ticks, sessions, refused>>

\* cleanupFocusMode: the timer this.timerInterval names is cleared and the
\* timer fields are reset
CleanupFocusMode ==
    /\ armed' = armed \ {timerInterval}
    /\ timerInterval' = 0
    /\ focusModeActive' = FALSE
    /\ timerPaused' = FALSE
    /\ timeRemaining' = Num(0)
    /\ timerDuration' = Num(0)
    /\ currentTask' = Absent
    /\ isBreakTime' = FALSE
    /\ ticks' = 0

\* stopFocusMode, the confirm dialog answered by confirmed
StopFocusMode(confirmed) ==
    IF ~confirmed
    THEN UNCHANGED vars
    ELSE /\ CleanupFocusMode
         /\ UNCHANGED <<taskVars, startVars, stats, storage, today, pomodoroCount,
                        pomodorosToday, permission, breakOffered, entered,
                        sessions, refused>>

\* startBreak(breakMinutes), called by timerComplete after its
\* cleanupFocusMode, which has cleared the timer this.timerInterval named
StartBreak(breakMinutes) ==
    LET left == armed \ {timerInterval}
        handle == CHOOSE h \in 1..(Cardinality(left) + 1) : h \notin left
    IN  /\ isBreakTime' = TRUE
        /\ timerDuration' = Num(breakMinutes * 60)
        /\ timeRemaining' = Num(breakMinutes * 60)
        /\ timerPaused' = FALSE
        /\ focusModeActive' = TRUE
        /\ currentTask' = Absent
        /\ timerInterval' = handle
        /\ armed' = left \cup {handle}
        /\ ticks' = 0

\* timerComplete, its confirm dialog answered by takeBreak.  timerDuration
\* is a number here: it is assigned together with timeRemaining, which the
\* caller has found to be <= 0.  When the permission is granted the
\* notification reads this.currentTask.text after cleanupFocusMode has set
\* this.currentTask to null: the TypeError ends the handler there.
TimerComplete(takeBreak) ==
    LET isLongBreak == (pomodoroCount + 1) % 4 = 0
        breakDuration == IF isLongBreak THEN 15 ELSE 5
        m == AddFocusTime(
                 IncrementPomodoros([stats |-> stats, storage |-> storage],
                                    today),
                 RoundMinutes(timerDuration.v))
    IN  /\ sessions' = IF focusModeActive /\ currentTask # Absent
                       THEN sessions + 1 ELSE sessions
        /\ IF ~isBreakTime
           THEN /\ pomodoroCount' = pomodoroCount + 1
                /\ pomodorosToday' = pomodorosToday + 1
                /\ stats' = m.stats
                /\ storage' = m.storage
                /\ IF permission = "granted"
                   THEN /\ CleanupFocusMode
                        /\ breakOffered' = 0
                   ELSE /\ breakOffered' = breakDuration
                        /\ IF takeBreak
                           THEN StartBreak(breakDuration)
                           ELSE CleanupFocusMode
           ELSE /\ CleanupFocusMode
                /\ breakOffered' = 0
                /\ UNCHANGED <<pomodoroCount, pomodorosToday, stats, storage>>
        /\ UNCHANGED <<taskVars, startVars, today, permission, entered, refused>>

\* the callback startCountdown hands to setInterval, run by the armed timer
\* handle; takeBreak answers the confirm dialog of timerComplete
Tick(handle, takeBreak) ==
    LET remaining == IF timeRemaining.nan THEN NaN
                     ELSE Num(timeRemaining.v - 1)
    IN  /\ handle \in armed
        /\ IF timerPaused
           THEN UNCHANGED vars
           ELSE IF ~remaining.nan /\ remaining.v <= 0
           THEN TimerComplete(takeBreak)
           ELSE /\ timeRemaining' = remaining
                /\ ticks' = ticks + 1
                /\ UNCHANGED <<taskVars, startVars, stats, storage, today,
                               focusModeActive, timerInterval, timerDuration,
                               timerPaused, currentTask, isBreakTime,
                               pomodoroCount, pomodorosToday, armed,
                               permission, breakOffered, entered, sessions, refused>>

\* ------------------------------------------------------------ full storage
\* The task operations when localStorage is full: setItem throws
\* QuotaExceededError, no handler catches it, and the handler ends at its
\* first write.  What it assigned before stays; localStorage stays as it was.

\* addTask
AddTaskFull(rawText, rawLocation, t) ==
    LET text == Trim(rawText)
        task == [id |-> t, text |-> text, completed |-> FALSE,
                 location |-> Trim(rawLocation)]
        saved == SaveState(history, historyIndex, tasks)
    IN  /\ t >= now
        /\ now' = t
        /\ IF text = <<>>
           THEN UNCHANGED <<tasks, _activeCount, _completedCount, history,
                            historyIndex, recentLocations, stats, storage, toast,
                            today, focusVars, startVars>>
           ELSE /\ history' = saved.history
                /\ historyIndex' = saved.historyIndex
                /\ tasks' = <<task>> \o tasks
                /\ _activeCount' = _activeCount + 1
                /\ recentLocations' =
                      AddRecentLocation(recentLocations, task.location)
                /\ UNCHANGED <<_completedCount, stats, storage, toast, today,
                               focusVars, startVars>>

\* deleteTask
DeleteTaskFull(id) ==
    LET saved == SaveState(history, historyIndex, tasks)
        i == FindIndex(tasks, id)
    IN  /\ history' = saved.history
        /\ historyIndex' = saved.historyIndex
        /\ _completedCount' =
              IF i # 0 /\ tasks[i].completed THEN _completedCount - 1
              ELSE _completedCount
        /\ _activeCount' =
              IF i # 0 /\ ~tasks[i].completed THEN _activeCount - 1
              ELSE _activeCount
        /\ tasks' = FilterOutId(tasks, id)
        /\ UNCHANGED <<recentLocations, stats, storage, toast, today, now,
                       focusVars, startVars>>

\* toggleTask: the write that throws is that of saveStats, or that of
\* saveToStorage when decrementTasksCompleted finds the counter at 0
ToggleTaskFull(id) ==
    LET saved == SaveState(history, historyIndex, tasks)
        r == ToggleResult(tasks, _activeCount, _completedCount,
                          [stats |-> stats, storage |-> storage], id, today)
    IN  /\ history' = saved.history
        /\ historyIndex' = saved.historyIndex
        /\ tasks' = r.tasks
        /\ _activeCount' = r.active
        /\ _completedCount' = r.completed
        /\ stats' = r.m.stats
        /\ UNCHANGED <<recentLocations, storage, toast, today, now,
                       focusVars, startVars>>

\* toggleAllTasks: incrementTasksCompleted always writes, and
\* decrementTasksCompleted writes when tasksCompletedToday > 0; the forEach
\* ends at the first task for which one of them writes, before the counters
\* are assigned.  When no call writes, the forEach and the assignments of the
\* counters are run and saveToStorage throws.
ToggleAllTasksFull ==
    LET saved == SaveState(history, historyIndex, tasks)
        allCompleted == _completedCount = Len(tasks)
        target == ~allCompleted
        m == [stats |-> stats, storage |-> storage]
        differ == {i \in 1..Len(tasks) : tasks[i].completed # target}
        writes == differ # {} /\ (target \/ stats.tasksCompletedToday > 0)
        first == CHOOSE i \in differ : \A j \in differ : i <= j
    IN  /\ history' = saved.history
        /\ historyIndex' = saved.historyIndex
        /\ IF writes
           THEN /\ tasks' = [tasks EXCEPT ![first].completed = target]
                /\ stats' = IF target
                            THEN IncrementTasksCompleted(m, today).stats
                            ELSE DecrementTasksCompleted(m, today).stats
                /\ UNCHANGED <<_activeCount, _completedCount>>
           ELSE /\ tasks' = [i \in 1..Len(tasks) |->
                               [tasks[i] EXCEPT !.completed = target]]
                /\ _activeCount' = IF allCompleted THEN Len(tasks) ELSE 0
                /\ _completedCount' = IF allCompleted THEN 0 ELSE Len(tasks)
                /\ UNCHANGED stats
        /\ UNCHANGED <<recentLocations, storage, toast, today, now,
                       focusVars, startVars>>

\* clearCompletedTasks
ClearCompletedTasksFull ==
    LET saved == SaveState(history, historyIndex, tasks)
    IN  /\ history' = saved.history
        /\ historyIndex' = saved.historyIndex
        /\ tasks' = FilterActive(tasks)
        /\ _completedCount' = 0
        /\ UNCHANGED <<_activeCount, recentLocations, stats, storage, toast,
                       today, now, focusVars, startVars>>

\* saveEdit
SaveEditFull(id, newText, newLocation) ==
    LET trimmedText == Trim(newText)
        saved == SaveState(history, historyIndex, tasks)
        i == FindIndex(tasks, id)
        location == Trim(newLocation)
    IN  IF trimmedText = <<>>
        THEN DeleteTaskFull(id)
        ELSE /\ history' = saved.history
             /\ historyIndex' = saved.historyIndex
             /\ tasks' = IF i = 0 THEN tasks
                         ELSE [tasks EXCEPT ![i].text = trimmedText,
                                            ![i].location = location]
             /\ recentLocations' =
                   IF i = 0 THEN recentLocations
                   ELSE AddRecentLocation(recentLocations, location)
             /\ UNCHANGED <<_activeCount, _completedCount, stats, storage,
                            toast, today, now, focusVars, startVars>>

\* undo: the toast of a successful undo is not reached
UndoFull ==
    IF historyIndex <= 0
    THEN /\ toast' = "Nothing to undo"
         /\ UNCHANGED <<tasks, _activeCount, _completedCount, history,
                        historyIndex, recentLocations, stats, storage, today, now,
                        focusVars, startVars>>
    ELSE LET restored == UndoTasks(history, historyIndex, tasks)
             counters == RecalculateCounters(restored)
         IN  /\ historyIndex' = historyIndex - 1
             /\ tasks' = restored
             /\ _activeCount' = counters.active
             /\ _completedCount' = counters.completed
             /\ UNCHANGED <<history, recentLocations, stats, storage, toast,
                            today, now, focusVars, startVars>>

\* redo: the toast of a successful redo is not reached
RedoFull ==
    IF historyIndex >= Len(history) - 1
    THEN /\ toast' = "Nothing to redo"
         /\ UNCHANGED <<tasks, _activeCount, _completedCount, history,
                        historyIndex, recentLocations, stats, storage, today, now,
                        focusVars, startVars>>
    ELSE LET restored == RedoTasks(history, historyIndex, tasks)
             counters == RecalculateCounters(restored)
         IN  /\ historyIndex' = historyIndex + 1
             /\ tasks' = restored
             /\ _activeCount' = counters.active
             /\ _completedCount' = counters.completed
             /\ UNCHANGED <<history, recentLocations, stats, storage, toast,
                            today, now, focusVars, startVars>>

\* ------------------------------------------------------------ task objects
\* The task operations where the identity of the task objects is followed:
\* which arrays hold which objects, and which assignments change an object
\* in place.

\* the records the references refs name in the heap h
Deref(h, refs) == [i \in 1..Len(refs) |-> h[refs[i]]]

\* an array that holds the same objects as refs: no copy is made
SharedCopy(h, refs) == [heap |-> h, refs |-> refs]

\* JSON.parse(JSON.stringify(array)): a new object for every element
DeepCopy(h, refs) ==
    [heap |-> h \o Deref(h, refs),
     refs |-> [i \in 1..Len(refs) |-> Len(h) + i]]

\* this.tasks.find(t => t.id === id): the position in refs of the first
\* object with this id, 0 when there is none
FindRef(h, refs, id) ==
    IF \E i \in 1..Len(refs) : h[refs[i]].id = id
    THEN CHOOSE i \in 1..Len(refs) :
            /\ h[refs[i]].id = id
            /\ \A j \in 1..(i - 1) : h[refs[j]].id # id
    ELSE 0

\* saveState: the heap, the history and the cursor it leaves
SaveStateObjects(h, hr, idx, refs) ==
    LET state == DeepCopy(h, refs)
        cut == IF idx < Len(hr) - 1 THEN SubSeq(hr, 1, idx + 1) ELSE hr
        pushed == Append(cut, state.refs)
    IN  IF Len(pushed) > maxHistorySize
        THEN [heap |-> state.heap, history |-> Tail(pushed), historyIndex |-> idx]
        ELSE [heap |-> state.heap, history |-> pushed, historyIndex |-> idx + 1]

\* what the object view leaves alone
valueVars == <<taskVars, stats, storage, today, focusVars, isNull, constructed>>

\* addTask: this.tasks.unshift(task) with a new object
AddTaskObject(t) ==
    LET saved == SaveStateObjects(heap, historyRefs, refCursor, liveRefs)
        task == [id |-> t, text |-> <<"a">>, completed |-> FALSE,
                 location |-> <<>>]
    IN  /\ heap' = Append(saved.heap, task)
        /\ liveRefs' = <<Len(saved.heap) + 1>> \o liveRefs
        /\ historyRefs' = saved.history
        /\ refCursor' = saved.historyIndex
        /\ UNCHANGED valueVars

\* deleteTask: this.tasks = this.tasks.filter(...), a new array of the same
\* objects
DeleteTaskObject(id) ==
    LET saved == SaveStateObjects(heap, historyRefs, refCursor, liveRefs)
    IN  /\ heap' = saved.heap
        /\ liveRefs' = SelectSeq(liveRefs, LAMBDA r : heap[r].id # id)
        /\ historyRefs' = saved.history
        /\ refCursor' = saved.historyIndex
        /\ UNCHANGED valueVars

\* toggleTask: task.completed = !task.completed on the object found
ToggleTaskObject(id) ==
    LET saved == SaveStateObjects(heap, historyRefs, refCursor, liveRefs)
        i == FindRef(heap, liveRefs, id)
    IN  /\ heap' = IF i = 0 THEN saved.heap
                   ELSE [saved.heap EXCEPT ![liveRefs[i]].completed = ~@]
        /\ historyRefs' = saved.history
        /\ refCursor' = saved.historyIndex
        /\ UNCHANGED <<liveRefs, valueVars>>

\* toggleAllTasks: task.completed is assigned on every object of this.tasks
\* (the cached counter taken to be that of a scan)
ToggleAllObjects ==
    LET saved == SaveStateObjects(heap, historyRefs, refCursor, liveRefs)
        live == {liveRefs[i] : i \in 1..Len(liveRefs)}
        target == ~(\A r \in live : heap[r].completed)
    IN  /\ heap' = [r \in 1..Len(saved.heap) |->
                       IF r \in live
                       THEN [saved.heap[r] EXCEPT !.completed = target]
                       ELSE saved.heap[r]]
        /\ historyRefs' = saved.history
        /\ refCursor' = saved.historyIndex
        /\ UNCHANGED <<liveRefs, valueVars>>

\* clearCompletedTasks: this.tasks = this.tasks.filter(...)
ClearCompletedObjects ==
    LET saved == SaveStateObjects(heap, historyRefs, refCursor, liveRefs)
    IN  /\ heap' = saved.heap
        /\ liveRefs' = SelectSeq(liveRefs, LAMBDA r : ~heap[r].completed)
        /\ historyRefs' = saved.history
        /\ refCursor' = saved.historyIndex
        /\ UNCHANGED valueVars

\* saveEdit with the text "b": task.text is assigned on the object found
SaveEditObject(id) ==
    LET saved == SaveStateObjects(heap, historyRefs, refCursor, liveRefs)
        i == FindRef(heap, liveRefs, id)
    IN  /\ heap' = IF i = 0 THEN saved.heap
                   ELSE [saved.heap EXCEPT ![liveRefs[i]].text = <<"b">>]
        /\ historyRefs' = saved.history
        /\ refCursor' = saved.historyIndex
        /\ UNCHANGED <<liveRefs, valueVars>>

\* handleDrop: the two splice calls move an object within this.tasks
HandleDropObject(dragged, target) ==
    LET saved == SaveStateObjects(heap, historyRefs, refCursor, liveRefs)
        draggedIndex == FindRef(heap, liveRefs, heap[liveRefs[dragged]].id)
        targetIndex == FindRef(heap, liveRefs, heap[liveRefs[target]].id)
    IN  /\ dragged \in 1..Len(liveRefs)
        /\ target \in 1..Len(liveRefs)
        /\ dragged # target
        /\ heap' = saved.heap
        /\ liveRefs' = Splice(liveRefs, draggedIndex, targetIndex)
        /\ historyRefs' = saved.history
        /\ refCursor' = saved.historyIndex
        /\ UNCHANGED valueVars

\* undo: this.tasks = JSON.parse(JSON.stringify(this.history[...]))
UndoObjects ==
    IF refCursor <= 0
    THEN UNCHANGED vars
    ELSE LET restored == DeepCopy(heap, historyRefs[refCursor])
         IN  /\ refCursor' = refCursor - 1
             /\ heap' = restored.heap
             /\ liveRefs' = restored.refs
             /\ UNCHANGED <<historyRefs, valueVars>>

\* redo: this.tasks = JSON.parse(JSON.stringify(this.history[...]))
RedoObjects ==
    IF refCursor >= Len(historyRefs) - 1
    THEN UNCHANGED vars
    ELSE LET restored == DeepCopy(heap, historyRefs[refCursor + 2])
         IN  /\ refCursor' = refCursor + 1
             /\ heap' = restored.heap
             /\ liveRefs' = restored.refs
             /\ UNCHANGED <<historyRefs, valueVars>>

\* ----------------------------------------------------------- specifications
\* what is typed into the add form and the edit form
Texts == {<<" ">>, <<"a">>}
EditTexts == {<<>>, <<"b", " ">>}
Locations == {<<>>, <<"h", " ">>}
Ids == 0..MaxClock

\* Spec: the task list, its counters and the undo/redo history.  A mutating
\* operation is offered while the history is short, a completion while few
\* tasks were completed today.
MayMutate == Len(history) < MaxSnapshots
MayComplete == stats.tasksCompletedToday < MaxCompleted

Next ==
    \/ \E text \in Texts, t \in Ids :
          MayMutate /\ Len(tasks) < MaxTasks /\ AddTask(text, <<>>, t)
    \/ \E id \in Ids : MayMutate /\ DeleteTask(id)
    \/ \E id \in Ids : MayMutate /\ MayComplete /\ ToggleTask(id)
    \/ MayMutate /\ MayComplete /\ ToggleAllTasks
    \/ MayMutate /\ ClearCompletedTasks
    \/ \E id \in Ids, text \in EditTexts : MayMutate /\ SaveEdit(id, text, <<>>)
    \/ \E dragged, target \in 1..MaxTasks : MayMutate /\ HandleDrop(dragged, target)
    \/ Undo
    \/ Redo

Spec == Init /\ [][Next]_vars

\* SpecLedger: the statistics over several days.  The user adds one task and
\* toggles it; midnight passes with the page open, and the page is loaded again.
NextLedger ==
    \/ tasks = <<>> /\ now = 0 /\ AddTask(<<"a">>, <<>>, now)
    \/ Len(history) < MaxSessionOps /\ MayComplete /\ ToggleTask(0)
    \/ today < MaxDay /\ DayPasses
    \/ now < MaxReloads /\ Reload(now + 1)

SpecLedger == Init /\ [][NextLedger]_vars

\* SpecHistory: a long run of mutating operations, undo and redo.  The user
\* adds one task first and then keeps clearing completed tasks, which records
\* a snapshot each time and leaves the list as it is, so that the history
\* grows past maxHistorySize.
NextHistory ==
    \/ history = <<>> /\ AddTask(<<"a">>, <<>>, now)
    \/ ClearCompletedTasks
    \/ Undo
    \/ Redo

SpecHistory == Init /\ [][NextHistory]_vars

\* a step of a mutating operation: one that reaches saveState (addTask with
\* empty trimmed text returns before it)
Mutates ==
    \/ \E text \in Texts, loc \in Locations, t \in Ids :
          Trim(text) # <<>> /\ AddTask(text, loc, t)
    \/ \E id \in Ids : DeleteTask(id)
    \/ \E id \in Ids : ToggleTask(id)
    \/ ToggleAllTasks
    \/ ClearCompletedTasks
    \/ \E id \in Ids, text \in EditTexts, loc \in Locations : SaveEdit(id, text, loc)
    \/ \E dragged, target \in 1..MaxTasks : HandleDrop(dragged, target)

\* the focus timer: one task is added; the permission request is answered;
\* the Focus button of the task is clicked and the prompt answered, also
\* while a session is running; the armed countdowns tick; the Pause, Resume
\* and Stop buttons of the focus view are clicked; midnight passes
Answers ==
    {Absent, Item(<<>>), Item(<<"1">>), Item(<<"2">>), Item(<<"-", "5">>),
     Item(<<"0">>), Item(<<"a">>), Item(<<"0", ".", "5">>), Item(<<".", "5">>),
     Item(<<"1", "e", "1">>)}

MayFocus == pomodoroCount < MaxSessions /\ sessions < MaxSessions

NextFocus ==
    \/ tasks = <<>> /\ now = 0 /\ AddTask(<<"a">>, <<>>, now)
    \/ \E answer \in {"granted", "denied"} : RequestPermission(answer)
    \/ /\ MayFocus
       /\ Cardinality(armed) < MaxTimers
       /\ \E id \in Ids, answer \in Answers : StartFocusMode(id, answer)
    \/ /\ MayFocus \/ isBreakTime
       /\ ticks < MaxTicks
       /\ \E handle \in armed, takeBreak \in BOOLEAN : Tick(handle, takeBreak)
    \/ focusModeActive /\ PauseFocusTimer
    \/ focusModeActive /\ ResumeFocusTimer
    \/ focusModeActive /\ \E confirmed \in BOOLEAN : StopFocusMode(confirmed)
    \/ today < MaxFocusDay /\ DayPasses

SpecFocus == Init /\ [][NextFocus]_vars

\* the breaks: one task is added; its Focus button is clicked, also while a
\* session or a break is running, and one minute is entered; the armed
\* countdowns tick and the breaks offered are taken or not; the Stop button
\* is clicked
MayWork == pomodoroCount < MaxPomodoros /\ sessions < MaxPomodoros

NextBreaks ==
    \/ tasks = <<>> /\ now = 0 /\ AddTask(<<"a">>, <<>>, now)
    \/ /\ MayWork
       /\ Cardinality(armed) < MaxTimers
       /\ StartFocusMode(0, Item(<<"1">>))
    \/ /\ MayWork \/ isBreakTime
       /\ ticks < MaxTicks
       /\ \E handle \in armed, takeBreak \in BOOLEAN : Tick(handle, takeBreak)
    \/ focusModeActive /\ StopFocusMode(TRUE)

SpecBreaks == Init /\ [][NextBreaks]_vars

\* the start of a session: one task is added; the Focus button of a task is
\* clicked and the prompt answered, also while a session is running; the
\* countdowns take their first ticks; the Pause and Stop buttons are clicked
NextStart ==
    \/ tasks = <<>> /\ now = 0 /\ AddTask(<<"a">>, <<>>, now)
    \/ /\ MayFocus
       /\ Cardinality(armed) < MaxTimers
       /\ \E id \in Ids, answer \in Answers : StartFocusMode(id, answer)
    \/ /\ MayFocus
       /\ ticks < MaxStartTicks
       /\ \E handle \in armed : Tick(handle, FALSE)
    \/ focusModeActive /\ PauseFocusTimer
    \/ focusModeActive /\ StopFocusMode(TRUE)

SpecStart == Init /\ [][NextStart]_vars

\* the recent locations: the app starts over the list of locations an
\* earlier run has stored; tasks are added and edited with a location
BaseLocations ==
    << <<"a">>, <<"b">>, <<"c">>, <<"d">>, <<"e">>, <<"f">>, <<"g">>, <<"h">>,
       <<"i">>, <<"j">> >>

StoredLocations == {SubSeq(BaseLocations, 1, n) : n \in {0, 1, 9, 10}}

LocationInputs ==
    {<<>>, <<" ">>, <<"a">>, <<" ", "j", " ">>, <<"e">>, <<"k">>, <<"m">>}

InitLocations ==
    \E locs \in StoredLocations :
        Started([EmptyStorage EXCEPT !.recentLocations = Item(locs)])

NextLocations ==
    \/ /\ Len(history) < MaxLocationOps
       /\ \E loc \in LocationInputs, t \in now..MaxClock :
             AddTask(<<"a">>, loc, t)
    \/ /\ Len(history) < MaxLocationOps
       /\ \E id \in Ids, loc \in LocationInputs :
             SaveEdit(id, <<"b", " ">>, loc)

SpecLocations == InitLocations /\ [][NextLocations]_vars

\* the startup: in the first run a task with a location is added and
\* toggled; the text under a key of localStorage is replaced by the text
\* null or by a text that does not parse; the page is loaded again.  The
\* task actions act on the fields of the first run, none of which is null.
Keys == {"tasks", "recentLocations", "stats"}

NextStartup ==
    \/ now = 0 /\ tasks = <<>> /\ AddTask(<<"a">>, <<"h", " ">>, now)
    \/ now = 0 /\ Len(history) < MaxSessionOps /\ MayComplete /\ ToggleTask(0)
    \/ \E key \in Keys, text \in {JsonNull, Unparsable} :
          StorageCorrupted(key, text)
    \/ now < MaxStartups /\ Reload(now + 1)

SpecStartup == Init /\ [][NextStartup]_vars

\* ------------------------------------------------------------------ claims
\* C1: after every task operation the cached counters equal a scan of the
\* list: _activeCount + _completedCount is the number of tasks and
\* _completedCount is the number of completed tasks.
CountersMatchScan ==
    /\ _activeCount + _completedCount = Len(tasks)
    /\ _completedCount = CountCompleted(tasks)

\* C2: an undo() issued right after a mutating operation on the list S sets
\* the list back to S.
UndoRestoresPreMutationList ==
    [][Mutates => UndoTasks(history', historyIndex', tasks') = tasks]_vars

\* C3: when undo() succeeds on the list L, a redo() issued right after it
\* sets the list back to L.
UndoSucceeds == historyIndex > 0 /\ Undo

RedoRestoresPreUndoList ==
    [][UndoSucceeds => RedoTasks(history', historyIndex', tasks') = tasks]_vars

\* C5: a mutating operation after undo drops every entry after the cursor,
\* appends the snapshot, leaves the cursor on the last entry, and a redo()
\* after it changes nothing and reports "Nothing to redo".
MutationAfterUndoDropsRedoBranch ==
    [][/\ (Mutates /\ historyIndex < Len(history) - 1) =>
              /\ history' = Append(SubSeq(history, 1, historyIndex + 1), tasks)
              /\ historyIndex' = Len(history') - 1
              /\ RedoTasks(history', historyIndex', tasks') = tasks'
       /\ (Redo /\ historyIndex = Len(history) - 1) =>
              /\ toast' = "Nothing to redo"
              /\ UNCHANGED <<tasks, _activeCount, _completedCount, history,
                             historyIndex, storage>>]_vars

\* C5 witness: the toast of a successful undo is still up and the cursor is on
\* the last entry again, which only a mutating operation after the undo does
MutatedAfterUndo == toast = "Undone" /\ historyIndex = Len(history) - 1

\* C4: the cursor stays within -1 .. history.length - 1 and the history never
\* holds more than maxHistorySize (50) snapshots.
HistoryWithinBounds ==
    /\ -1 <= historyIndex
    /\ historyIndex <= Len(history) - 1
    /\ Len(history) <= 50

\* C4 witness: the history is full, the cursor is on its last entry, and the
\* oldest snapshot (the empty list recorded by the first add) has been evicted
OldestSnapshotEvicted ==
    /\ Len(history) = 50
    /\ historyIndex = 49
    /\ history[1] # <<>>

\* C6: toggling an active task to completed moves one unit from _activeCount
\* to _completedCount and adds 1 to the tasks counter of today's window entry;
\* toggling it back on the same day returns both counters and today's entry
\* (tasks and totalActivity) to their values before the first toggle.
ToggleRoundTrip ==
    [][\A id \in Ids :
          (/\ FindIndex(tasks, id) # 0
           /\ ~tasks[FindIndex(tasks, id)].completed
           /\ ToggleTask(id)) =>
              LET i == FindDay(stats.contributionData, today)
                  j == FindDay(stats'.contributionData, today)
                  back == ToggleResult(tasks', _activeCount', _completedCount',
                                       [stats |-> stats', storage |-> storage'],
                                       id, today)
                  k == FindDay(back.m.stats.contributionData, today)
              IN  /\ _activeCount' = _activeCount - 1
                  /\ _completedCount' = _completedCount + 1
                  /\ i # 0
                  /\ j # 0
                  /\ stats'.contributionData[j].tasks
                        = stats.contributionData[i].tasks + 1
                  /\ back.active = _activeCount
                  /\ back.completed = _completedCount
                  /\ k # 0
                  /\ back.m.stats.contributionData[k] = stats.contributionData[i]
      ]_vars

\* C7: the activity window always has exactly 84 entries and its last entry
\* carries the current calendar date.
WindowEndsToday ==
    /\ Len(stats.contributionData) = 84
    /\ stats.contributionData[Len(stats.contributionData)].date = today

\* the activity flags of the six newest window entries, oldest first
NewestSixFlags ==
    [k \in 1..6 |->
        IF stats.contributionData[Len(stats.contributionData) - 6 + k]
              .totalActivity > 0
        THEN 1 ELSE 0]

\* C8 as stated: for the activity flags [0,1,1,1,0,1], oldest to newest, the
\* computed streak is 3.
StreakOfExampleIsThree ==
    NewestSixFlags = <<0, 1, 1, 1, 0, 1>> =>
        UpdateStreak(stats.contributionData) = 3

\* C8 as amended: for the activity flags [0,1,1,1,0,1], oldest to newest, the
\* computed streak is 1: the newest day is active and the day before it is not.
StreakOfExampleIsOne ==
    NewestSixFlags = <<0, 1, 1, 1, 0, 1>> =>
        UpdateStreak(stats.contributionData) = 1

\* C8 witness: the window shows the example and updateStreak has stored 1
StreakExampleReached ==
    /\ NewestSixFlags = <<0, 1, 1, 1, 0, 1>>
    /\ stats.streak = 1

\* the text entered for the running session writes a whole number of minutes
EnteredWhole ==
    LET n == ToNumber(entered)
    IN  ~n.nan /\ ~n.inf /\ n.frac = <<>> /\ n.exp >= 0

\* that number of minutes
EnteredMinutes ==
    LET n == ToNumber(entered) IN ToNat(n.int) * Pow10(n.exp)

\* C9: a work session started with a valid duration of m minutes completes
\* exactly at its 60*m-th tick taken while not paused, a tick taken while
\* paused leaves the remaining time as it is, and the completion counts once:
\* pomodoroCount + 1, total focus minutes + m, and the focus-session counter
\* of today's entry of the activity window + 1.
WorkSessionCompletesOnTime ==
    [][\A handle \in armed, takeBreak \in BOOLEAN :
          (/\ focusModeActive
           /\ currentTask # Absent
           /\ EnteredWhole
           /\ Tick(handle, takeBreak))
          => LET m == EnteredMinutes
                 i == FindDay(stats.contributionData, today)
                 j == FindDay(stats'.contributionData, today)
             IN  IF ~timerPaused /\ ticks + 1 = 60 * m
                 THEN /\ pomodoroCount' = pomodoroCount + 1
                      /\ stats'.totalFocusTime = stats.totalFocusTime + m
                      /\ j # 0
                      /\ stats'.contributionData[j].pomodoros =
                            (IF i = 0 THEN 0
                             ELSE stats.contributionData[i].pomodoros) + 1
                 ELSE /\ pomodoroCount' = pomodoroCount
                      /\ stats' = stats
                      /\ focusModeActive'
                      /\ currentTask' = currentTask
                      /\ timerPaused => timeRemaining' = timeRemaining
      ]_vars

\* C10: the count the break rule uses advances only when a work session
\* completes (not when a break completes or a session is stopped), and the
\* break offered when a work session completes lasts 15 minutes when the
\* number of work sessions completed since the app started is a multiple of
\* 4 and 5 minutes otherwise.
BreakFollowsCompletedSessions ==
    [][/\ pomodoroCount' > pomodoroCount => sessions' = sessions + 1
       /\ \A handle \in armed, takeBreak \in BOOLEAN :
             (/\ Tick(handle, takeBreak)
              /\ sessions' = sessions + 1
              /\ breakOffered' # 0)
             => breakOffered' = IF sessions' % 4 = 0 THEN 15 ELSE 5
      ]_vars

\* prompt answers that are not a duration: cancelled, empty, non-positive,
\* non-numeric
InvalidAnswers ==
    {Absent, Item(<<>>), Item(<<"-", "5">>), Item(<<"0">>), Item(<<"a">>)}

\* C11: a start-intent whose answer is cancelled, empty, non-positive or
\* non-numeric enters no running state: the active flag, the total duration,
\* the remaining time, the paused flag, the current task, the phase and the
\* armed timers are left as they were.
InvalidStartChangesNothing ==
    [][\A id \in Ids, answer \in InvalidAnswers :
          StartFocusMode(id, answer)
          => UNCHANGED <<focusModeActive, timerDuration, timeRemaining,
                         timerPaused, currentTask, isBreakTime, timerInterval,
                         armed>>
      ]_vars

\* C11 witness: startFocusMode has returned without starting while a session
\* was running, paused, part of its time gone
RefusedWhileRunning ==
    /\ refused
    /\ focusModeActive
    /\ timerPaused
    /\ ticks > 0
    /\ armed # {}

\* C12: when the countdown of a work session reaches zero, the break is
\* offered whether or not the notification permission is granted; accepting
\* it leaves a running break, not paused, with the full break duration as
\* remaining time, and declining it leaves the timer idle.
CompletionOffersBreak ==
    [][\A handle \in armed, takeBreak \in BOOLEAN :
          (/\ focusModeActive
           /\ currentTask # Absent
           /\ ~isBreakTime
           /\ ~timerPaused
           /\ ~timeRemaining.nan
           /\ timeRemaining.v - 1 <= 0
           /\ Tick(handle, takeBreak))
          => /\ breakOffered' \in {5, 15}
             /\ IF takeBreak
                THEN /\ focusModeActive'
                     /\ isBreakTime'
                     /\ ~timerPaused'
                     /\ timerDuration' = Num(breakOffered' * 60)
                     /\ timeRemaining' = timerDuration'
                ELSE ~focusModeActive'
      ]_vars

\* a task is added, or an existing task edited, with the location loc
UsesLocation(loc) ==
    \/ \E t \in now..MaxClock : AddTask(<<"a">>, loc, t)
    \/ \E id \in Ids :
          FindIndex(tasks, id) # 0 /\ SaveEdit(id, <<"b", " ">>, loc)

\* C13: the recent-location list has at most 10 entries and no duplicate,
\* and an add or edit carrying a location leaves that location at its head,
\* followed by the other locations in the order they had, most recently used
\* first, as many as fit.
RecentLocationsMostRecentFirst ==
    /\ [](/\ Len(recentLocations) <= 10
          /\ \A i, j \in 1..Len(recentLocations) :
                i # j => recentLocations[i] # recentLocations[j])
    /\ [][\A loc \in LocationInputs :
            (Trim(loc) # <<>> /\ UsesLocation(loc))
            => LET rest == SelectSeq(recentLocations,
                                     LAMBDA l : l # Trim(loc))
               IN  /\ recentLocations'[1] = Trim(loc)
                   /\ Len(recentLocations') =
                         IF Len(rest) < 10 THEN Len(rest) + 1 ELSE 10
                   /\ \A k \in 2..Len(recentLocations') :
                         recentLocations'[k] = rest[k - 1]
       ]_vars

\* C13 witness: two new locations have been used on a full list, which has
\* dropped its two oldest entries
OldestLocationsDropped ==
    /\ Len(recentLocations) = 10
    /\ recentLocations[1] = <<"m">>
    /\ recentLocations[2] = <<"k">>
    /\ recentLocations[10] = <<"h">>
    /\ storage.recentLocations = Item(recentLocations)

\* the text under key is one the program cannot use
Corrupt(key) == storage[key] \in {JsonNull, Unparsable}

\* C14: when the page is loaded over a storage in which exactly one key is
\* corrupt (a text that does not parse, or the text null), the constructor
\* runs to its end, that key falls back to its default (no task and both
\* counters 0, no recent location, the statistics of a first start) and the
\* other keys are loaded as stored.
CorruptKeyFallsBack ==
    [][\A key \in Keys :
          (/\ Corrupt(key)
           /\ \A other \in Keys \ {key} : ~Corrupt(other)
           /\ Reload(now + 1))
          => /\ constructed'
             /\ isNull' = {}
             /\ tasks' = IF key = "tasks" \/ storage.tasks = Absent THEN <<>>
                         ELSE storage.tasks[1]
             /\ _activeCount' = RecalculateCounters(tasks').active
             /\ _completedCount' = RecalculateCounters(tasks').completed
             /\ recentLocations' =
                   IF key = "recentLocations" \/ storage.recentLocations = Absent
                   THEN <<>> ELSE storage.recentLocations[1]
             /\ key = "stats" => stats' = DefaultStats(today)
             /\ (key # "stats" /\ storage.stats # Absent)
                   => stats' = CheckDailyReset(
                                   [stats |-> storage.stats[1],
                                    storage |-> storage], today).stats
      ]_vars

\* C15: an add with a text that is not empty after trimming first records a
\* snapshot of the list as it was before the add, then puts exactly one new
\* task, not completed, at the front; the tasks that were there keep their
\* fields and their order, the active counter grows by one and the completed
\* counter stays.
AddPrependsOneActiveTask ==
    [][\A text \in Texts, loc \in Locations, t \in Ids :
          (Trim(text) # <<>> /\ AddTask(text, loc, t))
          => /\ history' # <<>>
             /\ historyIndex' = Len(history') - 1
             /\ history'[Len(history')] = tasks
             /\ Len(tasks') = Len(tasks) + 1
             /\ tasks'[1].text = Trim(text)
             /\ ~tasks'[1].completed
             /\ Tail(tasks') = tasks
             /\ _activeCount' = _activeCount + 1
             /\ _completedCount' = _completedCount
      ]_vars

\* a task was just added in front of a list that holds a completed task
AddedInFrontOfCompleted ==
    /\ Len(tasks) >= 2
    /\ ~tasks[1].completed
    /\ \E i \in 2..Len(tasks) : tasks[i].completed
    /\ history # <<>>
    /\ historyIndex = Len(history) - 1
    /\ history[Len(history)] = Tail(tasks)

\* C16: in every reachable state the tasks of the list have pairwise distinct
\* ids, also when tasks are added in quick succession while the reading of the
\* clock has not advanced.
TaskIdsDistinct ==
    \A i, j \in 1..Len(tasks) : i # j => tasks[i].id # tasks[j].id

\* no task of the list has this id
NotInList(id) == FindIndex(tasks, id) = 0

\* C17: a delete, a toggle or an edit with a non-empty text that names an id
\* which is not in the list changes nothing: the list, both counters, the
\* history entries and the history cursor are as they were.
AbsentIdIsNoOp ==
    [][\A id \in Ids :
          (/\ NotInList(id)
           /\ \/ DeleteTask(id)
              \/ ToggleTask(id)
              \/ \E text \in EditTexts, loc \in Locations :
                    Trim(text) # <<>> /\ SaveEdit(id, text, loc))
          => UNCHANGED <<tasks, _activeCount, _completedCount, history,
                         historyIndex>>
      ]_vars

\* the text holds nothing but spaces
IsBlank(text) == \A k \in 1..Len(text) : text[k] = " "

\* C18: over any sequence of adds, edits, undos and redos no task of the list
\* has a text that is empty after trimming: an add with such a text creates no
\* task and records no snapshot, and an edit with such a text removes the task
\* exactly as a delete of it would.
NoTaskWithBlankText ==
    [][/\ \A i \in 1..Len(tasks') : ~IsBlank(tasks'[i].text)
       /\ \A text \in {<<>>, <<" ">>}, t \in Ids :
              AddTask(text, <<>>, t)
              => UNCHANGED <<tasks, _activeCount, _completedCount, history,
                             historyIndex>>
       /\ \A id \in Ids, text \in {<<>>, <<" ">>} :
              SaveEdit(id, text, <<>>)
              => /\ DeleteTask(id)
                 /\ tasks' = FilterOutId(tasks, id)
                 /\ \A i \in 1..Len(tasks') : tasks'[i].id # id
      ]_vars

\* an edit with an empty text (or a delete) has just removed a task whose
\* text had been edited before
EmptiedTaskRemoved ==
    /\ toast = "Deleted"
    /\ history # <<>>
    /\ Len(history[Len(history)]) > Len(tasks)
    /\ \E i \in 1..Len(history[Len(history)]) :
          history[Len(history)][i].text = <<"b">>

\* SpecToggleAll: adds, toggles, deletes, toggleAll and the change of day,
\* with at most MaxToggleOps snapshots recorded.
NextToggleAll ==
    \/ \E t \in Ids :
          /\ Len(history) < MaxToggleOps
          /\ Len(tasks) < MaxTasks
          /\ AddTask(<<"a">>, <<>>, t)
    \/ \E id \in Ids : Len(history) < MaxToggleOps /\ ToggleTask(id)
    \/ \E id \in Ids : Len(history) < MaxToggleOps /\ DeleteTask(id)
    \/ Len(history) < MaxToggleOps /\ ToggleAllTasks
    \/ today < MaxToggleDay /\ DayPasses

SpecToggleAll == Init /\ [][NextToggleAll]_vars

\* the task counter of today's entry of the ledger (0 when the window has no
\* entry for today)
TodayTasks(st, day) ==
    LET i == FindDay(st.contributionData, day)
    IN  IF i = 0 THEN 0 ELSE st.contributionData[i].tasks

\* the number of tasks of ts whose completed flag is flag
CountFlag(ts, flag) ==
    Cardinality({i \in 1..Len(ts) : ts[i].completed = flag})

\* C19: toggleAll makes every task active when all tasks were completed and
\* makes every task completed otherwise; the task counter of today's ledger
\* entry goes up by one per task that became completed, down by one (not
\* below 0) per task that became active, and does not move for a task whose
\* flag stayed.
ToggleAllFlipsAndCounts ==
    [][ToggleAllTasks
       => LET allDone == \A i \in 1..Len(tasks) : tasks[i].completed
              before == TodayTasks(stats, today)
              down == before - CountFlag(tasks, TRUE)
          IN  /\ tasks' = [i \in 1..Len(tasks) |->
                              [tasks[i] EXCEPT !.completed = ~allDone]]
              /\ TodayTasks(stats', today) =
                    IF allDone THEN (IF down < 0 THEN 0 ELSE down)
                    ELSE before + CountFlag(tasks, FALSE)
      ]_vars

\* C20: dropping the task id on the task beforeId puts id immediately before
\* beforeId, whether id was above or below it; the other tasks keep their
\* relative order, the new list is a permutation of the old one and neither
\* counter changes.  Stated for lists whose ids are distinct.
DropPlacesBeforeTarget ==
    [][\A dragged, target \in 1..MaxTasks :
          (TaskIdsDistinct /\ HandleDrop(dragged, target))
          => LET id == tasks[dragged].id
                 beforeId == tasks[target].id
             IN  /\ FindIndex(tasks', id) + 1 = FindIndex(tasks', beforeId)
                 /\ Len(tasks') = Len(tasks)
                 /\ tasks'[FindIndex(tasks', id)] = tasks[dragged]
                 /\ FilterOutId(tasks', id) = FilterOutId(tasks, id)
                 /\ UNCHANGED <<_activeCount, _completedCount>>
      ]_vars

\* C21: undo with the cursor at 0 or below, and redo with the cursor on the
\* last history entry, change nothing (the list, both counters, the history
\* entries and the cursor stay) and only report "Nothing to undo" or
\* "Nothing to redo".
NothingToUndoOrRedo ==
    [][/\ (historyIndex <= 0 /\ Undo)
          => /\ toast' = "Nothing to undo"
             /\ UNCHANGED <<tasks, _activeCount, _completedCount, history,
                            historyIndex, stats, storage>>
       /\ (historyIndex >= Len(history) - 1 /\ Redo)
          => /\ toast' = "Nothing to redo"
             /\ UNCHANGED <<tasks, _activeCount, _completedCount, history,
                            historyIndex, stats, storage>>
      ]_vars

\* undo has just been refused with the cursor on the first snapshot, and the
\* list holds a task
UndoRefusedAtFirstSnapshot ==
    /\ toast = "Nothing to undo"
    /\ historyIndex = 0
    /\ tasks # <<>>

\* C22: in every reachable state the stored streak is the number of
\* consecutive window entries with totalActivity > 0, counted from the newest
\* entry backward: it is up to date after a completion, an un-completion, a
\* completed focus session and a change of day.
StoredStreakUpToDate == stats.streak = UpdateStreak(stats.contributionData)

\* the date of the newest entry of the window
LastWindowDate(st) == st.contributionData[Len(st.contributionData)].date

\* C23: when the page is loaded two or more days after the date of the
\* window's last entry, the rollover leaves a window of 84 consecutive
\* calendar days ending today, each skipped day being an entry of its own
\* with no activity.
RolloverFillsSkippedDays ==
    [][(today - LastWindowDate(stats) >= 2 /\ Reload(now + 1))
       => /\ Len(stats'.contributionData) = 84
          /\ \A i \in 1..84 :
                stats'.contributionData[i].date = today - (84 - i)
          /\ \A i \in 1..84 :
                stats'.contributionData[i].date > LastWindowDate(stats)
                   => stats'.contributionData[i].totalActivity = 0
      ]_vars

\* SpecActivity: one task is added and toggled; one-minute focus sessions on
\* it are started while no countdown is armed, and the countdown ticks, no
\* break being taken; midnight passes and the page is loaded on the new day.
NextActivity ==
    \/ tasks = <<>> /\ now = 0 /\ AddTask(<<"a">>, <<>>, now)
    \/ Len(history) < MaxActivityOps /\ ToggleTask(0)
    \/ /\ stats.totalFocusTime < MaxActivitySessions
       /\ armed = {}
       /\ StartFocusMode(0, Item(<<"1">>))
    \/ \E handle \in armed : Tick(handle, FALSE)
    \/ today < MaxActivityDay /\ DayPasses
    \/ /\ now < MaxActivityReloads
       /\ stats.lastStatsDate # today
       /\ Reload(now + 1)

SpecActivity == Init /\ [][NextActivity]_vars

\* C24: in every reachable state every entry of the window has tasks >= 0,
\* pomodoros >= 0 and totalActivity = tasks + pomodoros; un-completing a task
\* while today's task counter is 0 leaves that counter at 0.
WindowEntriesConsistent ==
    /\ [](\A i \in 1..Len(stats.contributionData) :
            LET e == stats.contributionData[i]
            IN  /\ e.tasks >= 0
                /\ e.pomodoros >= 0
                /\ e.totalActivity = e.tasks + e.pomodoros)
    /\ [][\A id \in Ids :
            (/\ ~NotInList(id)
             /\ tasks[FindIndex(tasks, id)].completed
             /\ TodayTasks(stats, today) = 0
             /\ ToggleTask(id))
            => TodayTasks(stats', today) = 0
        ]_vars

\* a task completed on an earlier day, on which a focus session was completed
\* too, has been un-completed with today's task counter at 0
UncompletedAtZero ==
    /\ tasks # <<>>
    /\ ~tasks[1].completed
    /\ history # <<>>
    /\ stats.lastStatsDate = today
    /\ TodayTasks(stats, today) = 0
    /\ \E i \in 1..Len(stats.contributionData) :
          /\ stats.contributionData[i].date < today
          /\ stats.contributionData[i].tasks > 0
          /\ stats.contributionData[i].pomodoros > 0

\* the number of positions at which the flag of ts is from and that of us is to
CountChanged(ts, us, from, to) ==
    Cardinality({i \in 1..Len(ts) :
                    ts[i].completed = from /\ us[i].completed = to})

\* C25: every change of a task's completed flag is mirrored in the task
\* counter of today's ledger entry, +1 when it becomes completed and -1 (not
\* below 0) when it becomes active, whichever of toggle, toggleAll, undo and
\* redo makes the change.  Stated for the steps that keep the tasks and their
\* positions.
FlagChangesMirrored ==
    [][(/\ \/ \E id \in Ids : ToggleTask(id)
           \/ ToggleAllTasks
           \/ Undo
           \/ Redo
        /\ Len(tasks') = Len(tasks)
        /\ \A i \in 1..Len(tasks) : tasks'[i].id = tasks[i].id)
       => LET up == CountChanged(tasks, tasks', FALSE, TRUE)
              down == CountChanged(tasks, tasks', TRUE, FALSE)
              moved == TodayTasks(stats, today) + up - down
          IN  TodayTasks(stats', today) = IF moved < 0 THEN 0 ELSE moved
      ]_vars

\* C26: at most one countdown timer is ever armed: exactly one while a
\* session is running and none while the app is idle, also when the Focus
\* button is clicked while a session is running.
OneTimerWhileRunning ==
    Cardinality(armed) = IF focusModeActive THEN 1 ELSE 0

\* C27: a countdown tick that fires while no session is running changes
\* nothing: the remaining time stays 0, no completion is reported, and no
\* pomodoro, ledger entry or focus time is counted.
IdleTickChangesNothing ==
    [][(/\ ~focusModeActive
        /\ \E handle \in armed, takeBreak \in BOOLEAN : Tick(handle, takeBreak))
       => /\ timeRemaining' = Num(0)
          /\ UNCHANGED <<focusModeActive, pomodoroCount, pomodorosToday, stats,
                         sessions, breakOffered, isBreakTime>>
      ]_vars

\* C28: whenever a session is running its total duration is a positive whole
\* number of seconds and its remaining time is a number between 0 and that
\* total; no accepted answer, "0.5" included, gives a running session whose
\* duration is zero, negative or not a number.
RunningDurationPositive ==
    focusModeActive
    => /\ ~timerDuration.nan
       /\ timerDuration.v > 0
       /\ ~timeRemaining.nan
       /\ 0 <= timeRemaining.v
       /\ timeRemaining.v <= timerDuration.v

\* SpecQuota: the task operations on a storage that is full at some of them
\* and not at others, offered while the history is short and few completions
\* have been counted.
FullStorageOperation ==
    \/ \E text \in Texts, t \in Ids :
          Len(tasks) < MaxTasks /\ AddTaskFull(text, <<>>, t)
    \/ \E id \in Ids : DeleteTaskFull(id)
    \/ \E id \in Ids : ToggleTaskFull(id)
    \/ ToggleAllTasksFull
    \/ ClearCompletedTasksFull
    \/ \E id \in Ids, text \in EditTexts : SaveEditFull(id, text, <<>>)
    \/ UndoFull
    \/ RedoFull

NextQuota ==
    \/ \E t \in Ids :
          /\ Len(history) < MaxQuotaOps
          /\ Len(tasks) < MaxTasks
          /\ AddTask(<<"a">>, <<>>, t)
    \/ \E id \in Ids :
          Len(history) < MaxQuotaOps /\ MayComplete /\ ToggleTask(id)
    \/ Len(history) < MaxQuotaOps /\ MayComplete /\ FullStorageOperation

SpecQuota == Init /\ [][NextQuota]_vars

\* C29: when a localStorage write throws during a task operation, the
\* in-memory state stays consistent: the cached counters still equal a full
\* scan of the list, and the operation's change to the list is applied
\* completely (toggleAll leaves every task with the same flag).  Stated for
\* operations that start from matching counters and distinct ids.
FullStorageKeepsMemoryConsistent ==
    [][(CountersMatchScan /\ TaskIdsDistinct /\ FullStorageOperation)
       => /\ CountersMatchScan'
          /\ ToggleAllTasksFull
                => \A i, j \in 1..Len(tasks') :
                      tasks'[i].completed = tasks'[j].completed
      ]_vars

\* SpecAlias: the task operations on the task objects, offered while few
\* objects are allocated and the history is short.
MayAllocate == Len(heap) < MaxObjects /\ Len(historyRefs) < MaxAliasOps

NextAlias ==
    \/ \E t \in Ids :
          /\ MayAllocate
          /\ Len(liveRefs) < MaxLiveObjects
          /\ AddTaskObject(t)
    \/ \E id \in Ids : MayAllocate /\ DeleteTaskObject(id)
    \/ \E id \in Ids : MayAllocate /\ ToggleTaskObject(id)
    \/ MayAllocate /\ ToggleAllObjects
    \/ MayAllocate /\ ClearCompletedObjects
    \/ \E id \in Ids : MayAllocate /\ SaveEditObject(id)
    \/ \E dragged, target \in 1..MaxLiveObjects :
          MayAllocate /\ HandleDropObject(dragged, target)
    \/ MayAllocate /\ UndoObjects
    \/ MayAllocate /\ RedoObjects

SpecAlias == Init /\ [][NextAlias]_vars

\* the snapshots of the history hr as sequences of task records
Contents(h, hr) == [k \in 1..Len(hr) |-> Deref(h, hr[k])]

====
